---- MODULE Spec2Model ----
(***************************************************************************)
(* A model of check-ata.js: the script that walks ATA_ADDRESSES, asks the  *)
(* ledger for each account (getAccountInfo), decodes the ones that exist   *)
(* (getAccount) and prints one block of lines per address.                 *)
(*                                                                         *)
(* Strings that the script converts (base-58 identifiers, decimal          *)
(* amounts) are sequences of one-character strings, and the conversions    *)
(* are computed digit by digit.  Fixed texts of the log lines are kept as  *)
(* the kind of the line; the interpolated parts are the line's fields.     *)
(***************************************************************************)
EXTENDS Integers, Sequences, FiniteSets, TLC

(***************************************************************************)
(* Base-58 and decimal conversions, as done by the PublicKey constructor,  *)
(* PublicKey.toString() and BigInt.toString() the script calls.            *)
(***************************************************************************)

\* The base-58 alphabet of the identifiers (no 0, I, O, l).
Alphabet ==
  <<"1","2","3","4","5","6","7","8","9","A","B","C","D","E","F","G","H","J",
    "K","L","M","N","P","Q","R","S","T","U","V","W","X","Y","Z","a","b","c",
    "d","e","f","g","h","i","j","k","m","n","o","p","q","r","s","t","u","v",
    "w","x","y","z">>

\* The length in bytes of a public key.
PUBLIC_KEY_LENGTH == 32

\* The value of base-58 character c, or -1 when c is not in the alphabet.
CharIndex(c) ==
  IF \E k \in 1..Len(Alphabet) : Alphabet[k] = c
  THEN (CHOOSE k \in 1..Len(Alphabet) : Alphabet[k] = c) - 1
  ELSE -1

RECURSIVE Reverse(_)
Reverse(s) == IF s = <<>> THEN <<>> ELSE Append(Reverse(Tail(s)), Head(s))

RECURSIVE Repeat(_, _)
Repeat(x, n) == IF n <= 0 THEN <<>> ELSE <<x>> \o Repeat(x, n - 1)

\* The number of leading elements of s equal to x.
RECURSIVE LeadingCount(_, _)
LeadingCount(s, x) ==
  IF s = <<>> \/ Head(s) # x THEN 0 ELSE 1 + LeadingCount(Tail(s), x)

\* d is a number in base `base`, least significant digit first, without
\* leading zeros; the result is d * mul + carry in the same form.
RECURSIVE MulAdd(_, _, _, _)
MulAdd(d, mul, carry, base) ==
  IF d = <<>>
  THEN IF carry = 0 THEN <<>>
       ELSE <<carry % base>> \o MulAdd(<<>>, mul, carry \div base, base)
  ELSE LET v == d[1] * mul + carry
       IN  <<v % base>> \o MulAdd(Tail(d), mul, v \div base, base)

\* The digits `from` (most significant first, base `mul`) as a number in
\* base `base`, least significant digit first, starting from acc.
RECURSIVE Convert(_, _, _, _)
Convert(from, acc, mul, base) ==
  IF from = <<>> THEN acc
  ELSE Convert(Tail(from), MulAdd(acc, mul, Head(from), base), mul, base)

\* bs58.decode: the bytes a base-58 string stands for; each leading "1" is a
\* zero byte.  A character outside the alphabet is a fault.
Base58Decode(s) ==
  IF \E k \in 1..Len(s) : CharIndex(s[k]) < 0
  THEN [ok |-> FALSE, message |-> "Non-base58 character"]
  ELSE LET digits == [k \in 1..Len(s) |-> CharIndex(s[k])]
       IN  [ok |-> TRUE,
            bytes |-> Repeat(0, LeadingCount(s, "1"))
                        \o Reverse(Convert(digits, <<>>, 58, 256))]

\* bs58.encode: the base-58 string of a byte sequence.
Base58Encode(bytes) ==
  LET digits == Reverse(Convert(bytes, <<>>, 256, 58))
  IN  Repeat("1", LeadingCount(bytes, 0))
        \o [k \in 1..Len(digits) |-> Alphabet[digits[k] + 1]]

\* new PublicKey(string): the key when the string decodes to exactly
\* PUBLIC_KEY_LENGTH bytes, a thrown Error otherwise.
PublicKey(s) ==
  LET d == Base58Decode(s)
  IN  IF ~d.ok THEN d
      ELSE IF Len(d.bytes) # PUBLIC_KEY_LENGTH
           THEN [ok |-> FALSE, message |-> "Invalid public key input"]
           ELSE [ok |-> TRUE, bytes |-> d.bytes]

\* PublicKey.prototype.toString(): the base-58 text of the key's bytes.
KeyToString(key) == Base58Encode(key)

DecimalDigits == <<"0","1","2","3","4","5","6","7","8","9">>

\* BigInt.prototype.toString(): the decimal digits of n, no sign, no padding.
BigIntToString(n) ==
  IF n = 0 THEN <<"0">>
  ELSE LET d == Reverse(Convert(<<n>>, <<>>, 1, 10))
       IN  [k \in 1..Len(d) |-> DecimalDigits[d[k] + 1]]

\* Number.prototype.toString() of the small non-negative integer i + 1.
NumberToString(n) == BigIntToString(n)

(***************************************************************************)
(* The configuration and the ledger's possible answers.                    *)
(***************************************************************************)

\* The configured identifiers, as written in the script.
ATA_ADDRESSES ==
  << <<"A","S","k","p","s","R","K","w","G","K","b","U","m","m","M","r","d","k",
       "n","q","n","H","V","r","m","x","s","U","8","W","s","6","q","e","X","5",
       "i","E","6","A","U","E","R","K">>,
     <<"7","3","w","e","D","m","P","b","P","1","p","j","Z","y","s","h","M","4",
       "7","x","i","U","V","6","p","S","a","d","j","o","Z","P","E","t","H","e",
       "c","z","A","m","N","E","7","P">>,
     <<"H","k","u","a","P","e","S","M","o","g","2","j","b","G","M","Y","m","7",
       "v","j","P","F","S","a","h","e","M","6","9","P","S","1","V","X","o","i",
       "o","T","p","2","5","s","x","S">> >>

\* Two malformed identifier strings: one with a character outside the
\* alphabet, one that decodes to PUBLIC_KEY_LENGTH + 1 bytes.
MalformedIds ==
  { [ATA_ADDRESSES[2] EXCEPT ![1] = "0"], ATA_ADDRESSES[3] \o <<"1">> }

\* The strings an entry of the list may be.
CandidateIds ==
  {ATA_ADDRESSES[k] : k \in 1..Len(ATA_ADDRESSES)} \cup MalformedIds

\* How many entries of the list a run may have replaced by a malformed one.
MaxMalformed == 1

\* The lists the script is run with: the list as written, and the list with
\* up to MaxMalformed entries replaced by a malformed string.
AddressLists ==
  { l \in [1..Len(ATA_ADDRESSES) -> CandidateIds] :
      /\ \A k \in 1..Len(ATA_ADDRESSES) :
           l[k] \in {ATA_ADDRESSES[k]} \cup MalformedIds
      /\ Cardinality({k \in 1..Len(ATA_ADDRESSES) : l[k] # ATA_ADDRESSES[k]})
           <= MaxMalformed }

\* Keys the ledger's token accounts are made of: the wrapped-SOL mint, the
\* system program (32 zero bytes) and the token program.
MintKey ==
  PublicKey(<<"S","o","1","1","1","1","1","1","1","1","1","1","1","1","1","1",
              "1","1","1","1","1","1","1","1","1","1","1","1","1","1","1","1",
              "1","1","1","1","1","1","1","1","1","1","2">>).bytes
ZeroKey == Repeat(0, PUBLIC_KEY_LENGTH)
OwnerKey ==
  PublicKey(<<"T","o","k","e","n","k","e","g","Q","f","e","Z","y","i","N","w",
              "A","J","b","N","b","G","K","P","F","X","C","W","u","B","v","f",
              "9","S","s","6","2","3","V","Q","5","D","A">>).bytes

\* Decoded token accounts getAccount may resolve to.
TokenAccounts ==
  { [mint |-> MintKey, owner |-> OwnerKey, amount |-> 0],
    [mint |-> ZeroKey, owner |-> MintKey, amount |-> 1000000],
    [mint |-> OwnerKey, owner |-> ZeroKey, amount |-> 2147483647] }

\* The conversions of the values a run can meet, each computed once:
\* new PublicKey(s) of every candidate string, key.toString() of every key,
\* n.toString() of every amount and of every account number.
NewPublicKey == [s \in CandidateIds |-> PublicKey(s)]
KeyText ==
  [key \in {NewPublicKey[s].bytes : s \in {c \in CandidateIds : NewPublicKey[c].ok}}
            \cup {MintKey, ZeroKey, OwnerKey} |-> KeyToString(key)]
AmountText == [n \in {a.amount : a \in TokenAccounts} |-> BigIntToString(n)]
NumberText == [n \in 0..Len(ATA_ADDRESSES) |-> NumberToString(n)]

\* Message texts of the Errors a network call may throw (a TokenError of
\* spl-token carries the empty message).
FaultMessages == {"", "fetch failed"}

\* The message of the TypeError the Connection constructor throws.
EndpointFault == "Endpoint URL must start with http: or https:"

\* The value of a binding that holds nothing yet: of accountInfo, of ata (a
\* byte sequence when set), of tokenAccount and error (records when set).
Undefined == "undefined"
UndefinedKey == <<>>
UndefinedObject == [undefined |-> TRUE]
Null == "null"
\* A non-null AccountInfo; the script only tests that it is truthy.
AccountInfo == "AccountInfo"

\* What connection.getAccountInfo(ata) may settle with.
LookupOutcomes ==
  {[tag |-> "value", value |-> Null], [tag |-> "value", value |-> AccountInfo]}
    \cup {[tag |-> "fault", message |-> m] : m \in FaultMessages}

\* What getAccount(connection, ata) may settle with.
DecodeOutcomes ==
  {[tag |-> "value", value |-> a] : a \in TokenAccounts}
    \cup {[tag |-> "fault", message |-> m] : m \in FaultMessages}

(***************************************************************************)
(* The state of a run.                                                     *)
(***************************************************************************)
VARIABLES
  addrs,         \* the identifier list the script holds
  pc,            \* the statement the script is at
  i,             \* the loop index
  ata,           \* const ata of the current iteration (the key's bytes)
  accountInfo,   \* const accountInfo of the current iteration
  tokenAccount,  \* const tokenAccount of the current iteration
  error,         \* the Error thrown and not yet disposed of
  out,           \* the lines written to standard output
  err,           \* the lines written to standard error
  settled,       \* how the run stands: pending, resolved, rejected, uncaught
  exitCode,      \* the exit status, -1 while the process runs
  net,           \* the network calls issued and not yet returned
  rpc            \* the requests sent to the ledger and its answers, in order

vars ==
  <<addrs, pc, i, ata, accountInfo, tokenAccount, error, out, err, settled,
    exitCode, net, rpc>>

(***************************************************************************)
(* The lines the script prints.                                            *)
(***************************************************************************)
HeaderLine == [kind |-> "header"]
BlankLine == [kind |-> "blank"]

\* FoundLines with the mint and the owner taken from each other's field.
FoundLinesSwapped(idx, key, account) ==
  << [kind |-> "found", n |-> NumberText[idx + 1], id |-> KeyText[key]],
     [kind |-> "mint", val |-> KeyText[account.owner]],
     [kind |-> "balance", val |-> AmountText[account.amount]],
     [kind |-> "owner", val |-> KeyText[account.mint]] >>

\* Lines 25-28: the four lines of an account that was found and decoded.
FoundLines(idx, key, account) ==
  << [kind |-> "found", n |-> NumberText[idx + 1], id |-> KeyText[key]],
     [kind |-> "mint", val |-> KeyText[account.mint]],
     [kind |-> "balance", val |-> AmountText[account.amount]],
     [kind |-> "owner", val |-> KeyText[account.owner]] >>

\* NotFoundLines numbering the accounts from 0.
NotFoundLinesZeroBased(idx, key) ==
  << [kind |-> "notfound", n |-> NumberText[idx], id |-> KeyText[key]] >>

\* Line 30: the line of an account the ledger does not hold.
NotFoundLines(idx, key) ==
  << [kind |-> "notfound", n |-> NumberText[idx + 1],
      id |-> KeyText[key]] >>

\* Line 33: the line of a fault caught in the iteration.
ErrorLines(idx, key, e) ==
  << [kind |-> "error", n |-> NumberText[idx + 1], id |-> KeyText[key],
      message |-> e.message] >>

\* A try block that closes before the decode of line 24.
TryScopeLookupOnly == {"await1", "branch"}

\* The statements inside the try block (lines 20-32), by their pc.
TryScope == {"await1", "branch", "await2", "found", "notfound"}

\* Where control goes when a statement throws: to the catch clause from
\* inside the try block, out of checkATA (rejecting its promise) otherwise.
ThrowTo(at) == IF at \in TryScope THEN "catch" ELSE "rejected"

\* An exit status that tells a run with failed identifiers from a clean one.
ExitStatusCountingFailures(how) ==
  IF how = "uncaught"
     \/ \E k \in 1..Len(out) : out[k].kind \in {"notfound", "error"}
  THEN 1 ELSE 0

\* The exit status of the process: 1 after an uncaught exception, 0 when the
\* event loop runs empty (the promise resolved, or its rejection was handled
\* by .catch(console.error)).
ExitStatus(how) == IF how = "uncaught" THEN 1 ELSE 0

(***************************************************************************)
(* The script, statement by statement.                                     *)
(***************************************************************************)
Init ==
  /\ addrs \in AddressLists
  /\ pc = "load"
  /\ i = 0
  /\ ata = UndefinedKey
  /\ accountInfo = Undefined
  /\ tokenAccount = UndefinedObject
  /\ error = UndefinedObject
  /\ out = <<>>
  /\ err = <<>>
  /\ settled = "pending"
  /\ exitCode = -1
  /\ net = {}
  /\ rpc = <<>>

\* Line 6: new Connection(endpoint, 'confirmed').  Whether the constructor
\* accepts the endpoint text is the dependency's decision; when it throws,
\* the exception is uncaught at module level.
Load ==
  /\ pc = "load"
  /\ \E accepted \in BOOLEAN :
       IF accepted
       THEN /\ pc' = "call"
            /\ UNCHANGED <<error, err, settled>>
       ELSE /\ error' = [message |-> EndpointFault]
            /\ err' = Append(err, [kind |-> "uncaught", message |-> EndpointFault])
            /\ settled' = "uncaught"
            /\ pc' = "exit"
  /\ UNCHANGED <<addrs, i, ata, accountInfo, tokenAccount, out, exitCode, net, rpc>>

\* Lines 40, 15 and the loop's let i = 0.
Enter ==
  /\ pc = "call"
  /\ out' = Append(out, HeaderLine)
  /\ i' = 0
  /\ pc' = "loop"
  /\ UNCHANGED <<addrs, ata, accountInfo, tokenAccount, error, err, settled,
                 exitCode, net, rpc>>

\* Line 17: i < ATA_ADDRESSES.length; falling out of the loop resolves the
\* promise of checkATA.
LoopTest ==
  /\ pc = "loop"
  /\ IF i < Len(addrs)
     THEN pc' = "key" /\ UNCHANGED settled
     ELSE pc' = "exit" /\ settled' = "resolved"
  /\ UNCHANGED <<addrs, i, ata, accountInfo, tokenAccount, error, out, err,
                 exitCode, net, rpc>>

\* Line 18: const ata = new PublicKey(ATA_ADDRESSES[i]).
BuildKey ==
  /\ pc = "key"
  /\ LET k == NewPublicKey[addrs[i + 1]]
     IN  IF k.ok
         THEN /\ ata' = k.bytes
              /\ pc' = "lookup"
              /\ UNCHANGED error
         ELSE /\ error' = [message |-> k.message]
              /\ pc' = ThrowTo("key")
              /\ UNCHANGED ata
  /\ accountInfo' = Undefined
  /\ tokenAccount' = UndefinedObject
  /\ UNCHANGED <<addrs, i, out, err, settled, exitCode, net, rpc>>

\* Line 21: connection.getAccountInfo(ata) is called and awaited.
IssueLookup ==
  /\ pc = "lookup"
  /\ LET call == [op |-> "getAccountInfo", key |-> ata, idx |-> i]
     IN  /\ net' = net \cup {call}
         /\ rpc' = Append(rpc, [ev |-> "request", call |-> call])
  /\ pc' = "await1"
  /\ UNCHANGED <<addrs, i, ata, accountInfo, tokenAccount, error, out, err,
                 settled, exitCode>>

\* LookupReturns with a timer: the script may also go on with a timeout
\* fault while the call is still outstanding.
LookupReturnsOrTimesOut ==
  /\ pc = "await1"
  /\ \/ \E call \in net, r \in LookupOutcomes :
          /\ call.op = "getAccountInfo"
          /\ net' = net \ {call}
          /\ rpc' = Append(rpc, [ev |-> "response", call |-> call, result |-> r])
          /\ IF r.tag = "value"
             THEN /\ accountInfo' = r.value
                  /\ pc' = "branch"
                  /\ UNCHANGED error
             ELSE /\ error' = [message |-> r.message]
                  /\ pc' = ThrowTo("await1")
                  /\ UNCHANGED accountInfo
     \/ /\ error' = [message |-> "timeout"]
        /\ pc' = ThrowTo("await1")
        /\ UNCHANGED <<net, rpc, accountInfo>>
  /\ UNCHANGED <<addrs, i, ata, tokenAccount, out, err, settled, exitCode>>

\* Line 21: the awaited lookup settles, with the account info, null or a
\* fault.
LookupReturns ==
  /\ pc = "await1"
  /\ \E call \in net, r \in LookupOutcomes :
       /\ call.op = "getAccountInfo"
       /\ net' = net \ {call}
       /\ rpc' = Append(rpc, [ev |-> "response", call |-> call, result |-> r])
       /\ IF r.tag = "value"
          THEN /\ accountInfo' = r.value
               /\ pc' = "branch"
               /\ UNCHANGED error
          ELSE /\ error' = [message |-> r.message]
               /\ pc' = ThrowTo("await1")
               /\ UNCHANGED accountInfo
  /\ UNCHANGED <<addrs, i, ata, tokenAccount, out, err, settled, exitCode>>

\* Branch testing accountInfo !== undefined, which null passes.
BranchNotUndefined ==
  /\ pc = "branch"
  /\ pc' = IF accountInfo # Undefined THEN "decode" ELSE "notfound"
  /\ UNCHANGED <<addrs, i, ata, accountInfo, tokenAccount, error, out, err,
                 settled, exitCode, net, rpc>>

\* Line 23: if (accountInfo).
Branch ==
  /\ pc = "branch"
  /\ pc' = IF accountInfo # Null THEN "decode" ELSE "notfound"
  /\ UNCHANGED <<addrs, i, ata, accountInfo, tokenAccount, error, out, err,
                 settled, exitCode, net, rpc>>

\* IssueDecode with line 25 moved before the await of line 24.
IssueDecodeAfterStatus ==
  /\ pc = "decode"
  /\ LET call == [op |-> "getAccount", key |-> ata, idx |-> i]
     IN  /\ net' = net \cup {call}
         /\ rpc' = Append(rpc, [ev |-> "request", call |-> call])
  /\ out' = Append(out, [kind |-> "found", n |-> NumberText[i + 1],
                         id |-> KeyText[ata]])
  /\ pc' = "await2"
  /\ UNCHANGED <<addrs, i, ata, accountInfo, tokenAccount, error, err,
                 settled, exitCode>>

\* Line 24: getAccount(connection, ata) is called and awaited.
IssueDecode ==
  /\ pc = "decode"
  /\ LET call == [op |-> "getAccount", key |-> ata, idx |-> i]
     IN  /\ net' = net \cup {call}
         /\ rpc' = Append(rpc, [ev |-> "request", call |-> call])
  /\ pc' = "await2"
  /\ UNCHANGED <<addrs, i, ata, accountInfo, tokenAccount, error, out, err,
                 settled, exitCode>>

\* Line 24: the awaited decode settles, with the token account or a fault.
DecodeReturns ==
  /\ pc = "await2"
  /\ \E call \in net, r \in DecodeOutcomes :
       /\ call.op = "getAccount"
       /\ net' = net \ {call}
       /\ rpc' = Append(rpc, [ev |-> "response", call |-> call, result |-> r])
       /\ IF r.tag = "value"
          THEN /\ tokenAccount' = r.value
               /\ pc' = "found"
               /\ UNCHANGED error
          ELSE /\ error' = [message |-> r.message]
               /\ pc' = ThrowTo("await2")
               /\ UNCHANGED tokenAccount
  /\ UNCHANGED <<addrs, i, ata, accountInfo, out, err, settled, exitCode>>

\* Lines 25-28.
PrintFound ==
  /\ pc = "found"
  /\ out' = out \o FoundLines(i, ata, tokenAccount)
  /\ pc' = "separator"
  /\ UNCHANGED <<addrs, i, ata, accountInfo, tokenAccount, error, err,
                 settled, exitCode, net, rpc>>

\* PrintNotFound followed by continue: the separator of line 36 is skipped.
PrintNotFoundContinue ==
  /\ pc = "notfound"
  /\ out' = out \o NotFoundLines(i, ata)
  /\ i' = i + 1
  /\ pc' = "loop"
  /\ UNCHANGED <<addrs, ata, accountInfo, tokenAccount, error, err, settled,
                 exitCode, net, rpc>>

\* Line 30.
PrintNotFound ==
  /\ pc = "notfound"
  /\ out' = out \o NotFoundLines(i, ata)
  /\ pc' = "separator"
  /\ UNCHANGED <<addrs, i, ata, accountInfo, tokenAccount, error, err,
                 settled, exitCode, net, rpc>>

\* Lines 32-34: the catch clause; its error binding ends with the clause.
PrintError ==
  /\ pc = "catch"
  /\ out' = out \o ErrorLines(i, ata, error)
  /\ error' = UndefinedObject
  /\ pc' = "separator"
  /\ UNCHANGED <<addrs, i, ata, accountInfo, tokenAccount, err, settled,
                 exitCode, net, rpc>>

\* PrintSeparator advancing the index by two.
PrintSeparatorSkipping ==
  /\ pc = "separator"
  /\ out' = Append(out, BlankLine)
  /\ i' = i + 2
  /\ pc' = "loop"
  /\ UNCHANGED <<addrs, ata, accountInfo, tokenAccount, error, err, settled,
                 exitCode, net, rpc>>

\* Line 36, and the loop's i++.
PrintSeparator ==
  /\ pc = "separator"
  /\ out' = Append(out, BlankLine)
  /\ i' = i + 1
  /\ pc' = "loop"
  /\ UNCHANGED <<addrs, ata, accountInfo, tokenAccount, error, err, settled,
                 exitCode, net, rpc>>

\* Line 40: .catch(console.error) handles the rejection of checkATA().
HandleRejection ==
  /\ pc = "rejected"
  /\ err' = Append(err, [kind |-> "console.error", message |-> error.message])
  /\ settled' = "rejected"
  /\ pc' = "exit"
  /\ UNCHANGED <<addrs, i, ata, accountInfo, tokenAccount, error, out,
                 exitCode, net, rpc>>

\* Nothing is left to run: the process ends.
Exit ==
  /\ pc = "exit"
  /\ exitCode' = ExitStatus(settled)
  /\ pc' = "exited"
  /\ UNCHANGED <<addrs, i, ata, accountInfo, tokenAccount, error, out, err,
                 settled, net, rpc>>

\* The steps the script takes by itself.
Script ==
  \/ Load
  \/ Enter
  \/ LoopTest
  \/ BuildKey
  \/ IssueLookup
  \/ Branch
  \/ IssueDecode
  \/ PrintFound
  \/ PrintNotFound
  \/ PrintError
  \/ PrintSeparator
  \/ HandleRejection
  \/ Exit

\* The steps that wait for the ledger's answer.
Ledger == LookupReturns \/ DecodeReturns

Next == Script \/ Ledger

Spec == Init /\ [][Next]_vars

\* The script runs whenever it can, and every issued call returns.
LiveSpec == Spec /\ WF_vars(Script) /\ WF_vars(Ledger)

(***************************************************************************)
(* Reading the output and the ledger's log back.                           *)
(***************************************************************************)

\* The lines after the header, cut at the blank lines: the blocks that a
\* blank line ends (done) and the lines after the last blank line (open).
RECURSIVE SplitBlocks(_, _, _)
SplitBlocks(lines, cur, acc) ==
  IF lines = <<>> THEN [done |-> acc, open |-> cur]
  ELSE IF Head(lines).kind = "blank"
       THEN SplitBlocks(Tail(lines), <<>>, Append(acc, cur))
       ELSE SplitBlocks(Tail(lines), Append(cur, Head(lines)), acc)

Body == IF out = <<>> THEN <<>> ELSE Tail(out)
CompleteBlocks == SplitBlocks(Body, <<>>, <<>>).done
OpenBlock == SplitBlocks(Body, <<>>, <<>>).open

Kinds(b) == [k \in 1..Len(b) |-> b[k].kind]

\* The InspectionResult a block renders.
BlockResult(b) ==
  CASE Kinds(b) = <<"found", "mint", "balance", "owner">> -> "Found"
    [] Kinds(b) = <<"notfound">> -> "NotFound"
    [] Kinds(b) = <<"error">> -> "Error"
    [] OTHER -> "Malformed"

\* The number a string of decimal digits reads as.
RECURSIVE ParseDecimal(_, _)
ParseDecimal(s, acc) ==
  IF s = <<>> THEN acc
  ELSE ParseDecimal(Tail(s),
         acc * 10 + (CHOOSE d \in 0..9 : DecimalDigits[d + 1] = Head(s)))

\* The positions of the log where a request of op for identifier k was sent.
Requests(op, k) ==
  {p \in 1..Len(rpc) : /\ rpc[p].ev = "request"
                       /\ rpc[p].call.op = op
                       /\ rpc[p].call.idx = k}

\* The positions of the log where the ledger answered op for identifier k.
Responses(op, k) ==
  {p \in 1..Len(rpc) : /\ rpc[p].ev = "response"
                       /\ rpc[p].call.op = op
                       /\ rpc[p].call.idx = k}

\* The ledger answered op for identifier k with the value v / with a fault.
Answered(op, k, v) ==
  \E p \in Responses(op, k) :
    rpc[p].result.tag = "value" /\ rpc[p].result.value = v
Faulted(op, k) ==
  \E p \in Responses(op, k) : rpc[p].result.tag = "fault"

\* Every identifier of the list builds a key.
WellFormed(list) == \A k \in 1..Len(list) : NewPublicKey[list[k]].ok

\* The first line of block k names identifier k: its number and its string.
NamesIdentifier(line, k) ==
  /\ ParseDecimal(line.n, 0) = k
  /\ line.id = addrs[k]

(***************************************************************************)
(* The claims.                                                             *)
(***************************************************************************)

\* C1: whatever the ledger answers, the output holds one block per
\* identifier processed so far, each a Found, NotFound or Error block that
\* names its identifier, in list order; a run over well-formed identifiers
\* is never rejected, and when it resolves there are as many blocks as
\* identifiers.
C1_OneBlockPerIdentifierInOrder ==
  /\ out # <<>> => out[1] = HeaderLine
  /\ Len(CompleteBlocks) = i
  /\ \A k \in 1..Len(CompleteBlocks) :
       /\ BlockResult(CompleteBlocks[k]) \in {"Found", "NotFound", "Error"}
       /\ NamesIdentifier(CompleteBlocks[k][1], k)
  /\ (pc \in {"rejected", "exit", "exited"} /\ settled # "uncaught"
        /\ WellFormed(addrs))
       => settled = "resolved"
  /\ settled = "resolved"
       => (Len(CompleteBlocks) = Len(addrs) /\ OpenBlock = <<>>)

\* C1 witness: the run resolved with a Found, a NotFound and an Error block,
\* in that order.
C1_Witness ==
  /\ pc = "exited"
  /\ settled = "resolved"
  /\ [k \in 1..Len(CompleteBlocks) |-> BlockResult(CompleteBlocks[k])]
       = <<"Found", "NotFound", "Error">>
  /\ Faulted("getAccount", 2)

\* C2 (as claimed): no fault raised at identifier i, building the identifier
\* from its string included, ends the run while identifier i+1 is left
\* unprocessed.
C2_NoFaultStopsLoop ==
  ~(pc = "exited" /\ settled = "rejected" /\ i + 1 < Len(addrs))

\* The ledger's last answer is a fault of op for identifier k, the current one.
FaultJustRaised(op, k) ==
  /\ i = k
  /\ rpc # <<>>
  /\ rpc[Len(rpc)].ev = "response"
  /\ rpc[Len(rpc)].call.op = op
  /\ rpc[Len(rpc)].call.idx = k
  /\ rpc[Len(rpc)].result.tag = "fault"

\* C2 (amended): after a fault of the lookup or of the decode of identifier
\* k, the loop goes on to identifier k+1; the only fault that leaves the
\* loop is the one raised building the current identifier from its string.
C2_CaughtFaultsDoNotStopLoop ==
  /\ [](pc = "rejected" =>
          /\ i < Len(addrs)
          /\ ~NewPublicKey[addrs[i + 1]].ok
          /\ Responses("getAccountInfo", i) = {})
  /\ \A k \in 0..(Len(ATA_ADDRESSES) - 2) :
       \A op \in {"getAccountInfo", "getAccount"} :
         FaultJustRaised(op, k) ~> (pc = "key" /\ i = k + 1)

\* C2 witness: identifier 3 is reached after a lookup fault at identifier 1
\* and a decode fault at identifier 2.
C2_Witness ==
  /\ pc = "key"
  /\ i = 2
  /\ Faulted("getAccountInfo", 0)
  /\ Faulted("getAccount", 1)

\* C3: a run ended by a fault outside the try block (the Connection
\* constructor, the PublicKey constructor) has written the failure to
\* standard error and has a non-zero exit status.
C3_OutsideFaultExitsNonZero ==
  (pc = "exited" /\ settled \in {"rejected", "uncaught"})
    => (err # <<>> /\ exitCode # 0)

\* C4: a run whose only faults are lookup and decode faults resolves and
\* exits with status 0, whatever number of its blocks are NotFound or Error.
C4_PerIdentifierFailuresExitZero ==
  (pc = "exited" /\ settled # "uncaught" /\ WellFormed(addrs))
    => (settled = "resolved" /\ exitCode = 0)

\* C4 witness: the run ended with no Found block at all, a lookup fault and
\* a decode fault among the failures.
C4_Witness ==
  /\ pc = "exited"
  /\ Len(CompleteBlocks) = Len(addrs)
  /\ \A k \in 1..Len(CompleteBlocks) :
       BlockResult(CompleteBlocks[k]) \in {"NotFound", "Error"}
  /\ \E k \in 0..(Len(addrs) - 1) : Faulted("getAccountInfo", k)
  /\ \E k \in 0..(Len(addrs) - 1) : Faulted("getAccount", k)

\* C5: the block of an identifier the lookup reported absent is the single
\* not-found line with that identifier: no mint, balance or owner line.
C5_AbsentGivesNotFoundOnly ==
  \A k \in 1..Len(CompleteBlocks) :
    Answered("getAccountInfo", k - 1, Null) =>
      /\ Kinds(CompleteBlocks[k]) = <<"notfound">>
      /\ NamesIdentifier(CompleteBlocks[k][1], k)

\* C5 witness: the second identifier was reported absent and its block is
\* printed.
C5_Witness ==
  /\ Len(CompleteBlocks) >= 2
  /\ Answered("getAccountInfo", 1, Null)

\* C6: the block of an identifier that was present and decoded is the status
\* line, one mint line, one balance line and one owner line, in this order,
\* and the three values read back as the fields of the decoded record.
C6_FoundGivesRecordVerbatim ==
  \A k \in 1..Len(CompleteBlocks) :
    \A a \in TokenAccounts :
      Answered("getAccount", k - 1, a) =>
        LET b == CompleteBlocks[k]
        IN  /\ Kinds(b) = <<"found", "mint", "balance", "owner">>
            /\ NamesIdentifier(b[1], k)
            /\ Base58Decode(b[2].val) = [ok |-> TRUE, bytes |-> a.mint]
            /\ ParseDecimal(b[3].val, 0) = a.amount
            /\ Base58Decode(b[4].val) = [ok |-> TRUE, bytes |-> a.owner]

\* C6 witness: three Found blocks are printed, one for each token account
\* the ledger may hold.
C6_Witness ==
  /\ Len(CompleteBlocks) = 3
  /\ \A a \in TokenAccounts :
       \E k \in 0..2 : Answered("getAccount", k, a)

\* C7: the block of an identifier that was present and whose decode raised a
\* fault is the single error line with the identifier and the fault's
\* message: no status, mint, balance or owner line comes before it.
C7_DecodeFaultGivesErrorOnly ==
  \A k \in 1..Len(CompleteBlocks) :
    \A p \in Responses("getAccount", k - 1) :
      rpc[p].result.tag = "fault" =>
        /\ Kinds(CompleteBlocks[k]) = <<"error">>
        /\ NamesIdentifier(CompleteBlocks[k][1], k)
        /\ CompleteBlocks[k][1].message = rpc[p].result.message

\* C7 witness: a decode fault with a non-empty message and one with the
\* empty message have been printed.
C7_Witness ==
  /\ \E k \in 1..Len(CompleteBlocks) :
       \E p \in Responses("getAccount", k - 1) :
         rpc[p].result = [tag |-> "fault", message |-> "fetch failed"]
  /\ \E k \in 1..Len(CompleteBlocks) :
       \E p \in Responses("getAccount", k - 1) :
         rpc[p].result = [tag |-> "fault", message |-> ""]

\* C8: at most one network call is outstanding, requests and answers
\* alternate in the log, and while a call for identifier k is outstanding
\* the output is exactly the header and the k whole blocks, separators
\* included, of the identifiers before it.
C8_SequentialNoPipelining ==
  /\ Cardinality(net) <= 1
  /\ \A c \in net :
       /\ c.idx = i
       /\ Len(CompleteBlocks) = c.idx
       /\ OpenBlock = <<>>
       /\ rpc[Len(rpc)] = [ev |-> "request", call |-> c]
  /\ \A p \in 1..Len(rpc) :
       IF p % 2 = 1
       THEN rpc[p].ev = "request"
       ELSE rpc[p].ev = "response" /\ rpc[p].call = rpc[p - 1].call
  /\ \A p \in 2..Len(rpc) : rpc[p - 1].call.idx <= rpc[p].call.idx
  /\ net = {} => Len(rpc) % 2 = 0

\* C8 witness: the lookup of the third identifier is outstanding after a
\* Found block and a NotFound block.
C8_Witness ==
  /\ net = {[op |-> "getAccountInfo", key |-> ata, idx |-> 2]}
  /\ BlockResult(CompleteBlocks[1]) = "Found"
  /\ BlockResult(CompleteBlocks[2]) = "NotFound"

\* C9: while a network call is outstanding the only step is its return:
\* nothing is printed, the index does not move and the run does not end;
\* and when every issued call returns, the run ends, having processed every
\* identifier if all of them are well formed.
C9_HangBlocksReturnFinishes ==
  /\ [][net # {} => /\ net' = {}
                    /\ out' = out
                    /\ i' = i
                    /\ settled' = settled
                    /\ exitCode' = exitCode]_vars
  /\ [](net # {} => pc \in {"await1", "await2"} /\ exitCode = -1)
  /\ <>(pc = "exited")
  /\ [](pc = "exited" /\ settled # "uncaught" /\ WellFormed(addrs) =>
          /\ settled = "resolved"
          /\ i = Len(addrs)
          /\ Len(CompleteBlocks) = Len(addrs))

\* C9 witness: the run ended after six network calls, all returned.
C9_Witness ==
  /\ pc = "exited"
  /\ settled = "resolved"
  /\ Len(rpc) = 12
  /\ net = {}

\* C10: per identifier one lookup is sent (exactly one once the identifier
\* is done) and at most one decode; a decode is sent only after the lookup
\* of the same identifier answered present; a lookup fault is printed as the
\* error line with the fault's message.
C10_TwoStageQueries ==
  \A k \in 0..(Len(addrs) - 1) :
    /\ Cardinality(Requests("getAccountInfo", k)) <= 1
    /\ Cardinality(Requests("getAccount", k)) <= 1
    /\ k < i => Cardinality(Requests("getAccountInfo", k)) = 1
    /\ \A p \in Requests("getAccountInfo", k) \cup Requests("getAccount", k) :
         NewPublicKey[addrs[k + 1]] = [ok |-> TRUE, bytes |-> rpc[p].call.key]
    /\ \A p \in Requests("getAccount", k) :
         \E q \in Responses("getAccountInfo", k) :
           /\ q < p
           /\ rpc[q].result = [tag |-> "value", value |-> AccountInfo]
    /\ Answered("getAccountInfo", k, Null) \/ Faulted("getAccountInfo", k) =>
         Requests("getAccount", k) = {}
    /\ \A p \in Responses("getAccountInfo", k) :
         rpc[p].result.tag = "fault" /\ k < Len(CompleteBlocks) =>
           /\ Kinds(CompleteBlocks[k + 1]) = <<"error">>
           /\ NamesIdentifier(CompleteBlocks[k + 1][1], k + 1)
           /\ CompleteBlocks[k + 1][1].message = rpc[p].result.message

\* C10 witness: the run is over with one identifier absent, one whose lookup
\* faulted and one decoded.
C10_Witness ==
  /\ pc = "exited"
  /\ \E k \in 0..2 : Answered("getAccountInfo", k, Null)
  /\ \E k \in 0..2 : Faulted("getAccountInfo", k)
  /\ \E k \in 0..2 : Requests("getAccount", k) # {}

====
